---- MODULE Spec2Model ----
(***************************************************************************)
(* Model of convert.py: a source PDF is rendered page by page to JPEG      *)
(* files, the images are assembled into one intermediate PDF, and that PDF *)
(* is split into shards split_1.pdf, split_2.pdf, ... by a size ceiling.   *)
(*                                                                         *)
(* A page is identified by its 1-based number in the source.  A PDF file   *)
(* is the sequence of the pages it holds.  Sizes are in units of 0.1 MiB;  *)
(* the size of a saved PDF is the sum of the sizes its pages contribute.   *)
(* Library and filesystem calls that can raise do so nondeterministically, *)
(* at most MaxFaults times in one run.                                     *)
(***************************************************************************)
EXTENDS Integers, Sequences, FiniteSets

\* ---------------------------------------------------------------- bounds
MaxPages == 3       \* sources with arbitrary page sizes have 0..MaxPages pages
MaxUniform == 10    \* sources of 0.5 MiB pages have 0..MaxUniform pages
MaxFaults == 2      \* raised exceptions injected in one run

\* ------------------------------------------------------------- constants
\* MAX_FILE_SIZE_MB = 4.3, in units of 0.1 MiB
CeilingFiveMB == 50
Ceiling == 43

\* sizes one page can contribute: 0.5 MiB, 2.0 MiB, 4.5 MiB (alone over the ceiling)
PageSizes == {5, 20, 45}

InputPath == "input.pdf"
DefaultTempPath == "temp_large.pdf"
Paths == {InputPath, DefaultTempPath}

\* ------------------------------------------------------------ filesystem
NoFile == [kind |-> "none", pages |-> <<>>]
BadFile == [kind |-> "bad", pages |-> <<>>]
Pdf(p) == [kind |-> "pdf", pages |-> p]

Exists(f) == f.kind # "none"

Range(s) == {s[i] : i \in DOMAIN s}
Iota(n) == [i \in 1..n |-> i]

VARIABLES
    fs,            \* path -> file, for the source and the intermediate PDF
    images,        \* page number -> state of temp_page_N.jpg
    out_dir,       \* "absent", "blocked" (absent, cannot be created), "writable", "readonly"
    shards,        \* shards[k] is the file split_k.pdf of the output folder
    temp_pdf,      \* argument temp_pdf: path of the intermediate PDF
    sizes,         \* sizes[p]: size page p of the source contributes to a PDF
    pc,            \* position in pdf_to_split_pdfs
    pdf_document,  \* pdf_to_split_pdfs: pages of the opened source
    page_num,      \* pdf_to_split_pdfs: pages rendered so far
    temp_images,   \* pdf_to_split_pdfs: list of image paths (page numbers)
    doc,           \* save_large_pdf: the document being assembled
    image_index,   \* save_large_pdf: images visited so far
    split_source,  \* split_pdf: pages of the opened intermediate PDF
    current_pdf,   \* split_pdf: the accumulator
    split_index,   \* split_pdf: the shard counter
    page_number,   \* split_pdf: pages visited so far
    log,           \* the messages printed, in order
    faults         \* exceptions injected so far

vars == <<fs, images, out_dir, shards, temp_pdf, sizes, pc, pdf_document,
          page_num, temp_images, doc, image_index, split_source, current_pdf,
          split_index, page_number, log, faults>>

fsVars == <<fs, images, out_dir, shards>>
inputVars == <<temp_pdf, sizes>>
renderVars == <<pdf_document, page_num, temp_images>>
assembleVars == <<doc, image_index>>
splitVars == <<split_source, current_pdf, split_index, page_number>>

\* ------------------------------------------------------------- helpers
RECURSIVE FileSize(_, _)
\* os.path.getsize of a saved PDF holding the pages p
FileSize(p, sz) ==
    IF p = <<>> THEN 0
    ELSE (IF Head(p) \in DOMAIN sz THEN sz[Head(p)] ELSE 0) + FileSize(Tail(p), sz)

Say(msg, n) == log' = Append(log, <<msg, n>>)
Said(msg) == \E i \in DOMAIN log : log[i][1] = msg
SaidFor(msg, n) == \E i \in DOMAIN log : log[i] = <<msg, n>>
CanFault == faults < MaxFaults
Fault == faults' = faults + 1

Sources ==
    UNION {[1..n -> PageSizes] : n \in 0..MaxPages}
    \cup {[i \in 1..n |-> 5] : n \in 0..MaxUniform}

Init ==
    /\ temp_pdf \in Paths
    /\ \E srcKind \in {"pdf", "bad", "none"} :
         /\ sizes \in (IF srcKind = "pdf" THEN Sources ELSE {<<>>})
         /\ \E stale \in {NoFile, BadFile} \cup
                         (IF sizes # <<>> THEN {Pdf(Iota(Len(sizes)))} ELSE {}) :
              fs = [p \in Paths |->
                      IF p = InputPath
                      THEN (IF srcKind = "pdf" THEN Pdf(Iota(Len(sizes)))
                            ELSE IF srcKind = "bad" THEN BadFile ELSE NoFile)
                      ELSE stale]
    /\ images = [i \in 1..Len(sizes) |-> "none"]
    /\ out_dir \in {"absent", "blocked", "writable", "readonly"}
    /\ shards = <<>>
    /\ pc = "open"
    /\ pdf_document = <<>>
    /\ page_num = 0
    /\ temp_images = <<>>
    /\ doc = <<>>
    /\ image_index = 0
    /\ split_source = <<>>
    /\ current_pdf = <<>>
    /\ split_index = 1
    /\ page_number = 0
    /\ log = <<>>
    /\ faults = 0

\* ------------------------------------------------ pdf_to_split_pdfs: render
OpenSourceOk ==
    /\ pc = "open"
    /\ fs[InputPath].kind = "pdf"
    /\ pdf_document' = fs[InputPath].pages
    /\ pc' = "render"
    /\ UNCHANGED <<fsVars, inputVars, page_num, temp_images, assembleVars,
                   splitVars, log, faults>>

OpenSourceFail ==
    /\ pc = "open"
    /\ fs[InputPath].kind # "pdf"
    /\ Say("An error occurred during processing: open", 0)
    /\ pc' = "cleanup"
    /\ UNCHANGED <<fsVars, inputVars, renderVars, assembleVars, splitVars, faults>>

RenderPageOk ==
    /\ pc = "render"
    /\ page_num < Len(pdf_document)
    /\ images' = [images EXCEPT ![page_num + 1] = "jpg"]
    /\ temp_images' = Append(temp_images, page_num + 1)
    /\ Say("Page rendered", page_num + 1)
    /\ page_num' = page_num + 1
    /\ UNCHANGED <<fs, out_dir, shards, inputVars, pdf_document, pc,
                   assembleVars, splitVars, faults>>

\* page.get_pixmap raises: no file is touched, the outer handler takes over
RenderPixmapFail ==
    /\ pc = "render"
    /\ page_num < Len(pdf_document)
    /\ CanFault /\ Fault
    /\ Say("An error occurred during processing: get_pixmap", page_num + 1)
    /\ pc' = "cleanup"
    /\ UNCHANGED <<fsVars, inputVars, renderVars, assembleVars, splitVars>>

\* pix.save raises: the file may or may not have been created already
RenderSaveFail ==
    /\ pc = "render"
    /\ page_num < Len(pdf_document)
    /\ CanFault /\ Fault
    /\ \E left \in {"none", "partial"} :
         images' = [images EXCEPT ![page_num + 1] = left]
    /\ Say("An error occurred during processing: pix.save", page_num + 1)
    /\ pc' = "cleanup"
    /\ UNCHANGED <<fs, out_dir, shards, inputVars, renderVars, assembleVars,
                   splitVars>>

RenderDone ==
    /\ pc = "render"
    /\ page_num = Len(pdf_document)
    /\ pc' = "assemble"
    /\ doc' = <<>>
    /\ image_index' = 0
    /\ UNCHANGED <<fsVars, inputVars, renderVars, splitVars, log, faults>>

\* ------------------------------------------------------------ save_large_pdf
ConvertOk ==
    /\ pc = "assemble"
    /\ image_index < Len(temp_images)
    /\ images[temp_images[image_index + 1]] = "jpg"
    /\ doc' = Append(doc, temp_images[image_index + 1])
    /\ image_index' = image_index + 1
    /\ UNCHANGED <<fsVars, inputVars, pc, renderVars, splitVars, log, faults>>

ConvertFail ==
    /\ pc = "assemble"
    /\ image_index < Len(temp_images)
    /\ CanFault /\ Fault
    /\ Say("Error converting to PDF", temp_images[image_index + 1])
    /\ image_index' = image_index + 1
    /\ UNCHANGED <<fsVars, inputVars, pc, renderVars, doc, splitVars>>

SaveLargeOk ==
    /\ pc = "assemble"
    /\ image_index = Len(temp_images)
    /\ Len(doc) > 0
    /\ fs' = [fs EXCEPT ![temp_pdf] = Pdf(doc)]
    /\ Say("Combined PDF saved", 0)
    /\ pc' = "check"
    /\ UNCHANGED <<images, out_dir, shards, inputVars, renderVars,
                   assembleVars, splitVars, faults>>

\* doc.save raises: the target is untouched or left truncated
SaveLargeFail ==
    /\ pc = "assemble"
    /\ image_index = Len(temp_images)
    /\ Len(doc) > 0
    /\ CanFault /\ Fault
    /\ \E left \in {fs[temp_pdf], BadFile} : fs' = [fs EXCEPT ![temp_pdf] = left]
    /\ Say("Error saving combined PDF", 0)
    /\ pc' = "check"
    /\ UNCHANGED <<images, out_dir, shards, inputVars, renderVars,
                   assembleVars, splitVars>>

SaveLargeEmpty ==
    /\ pc = "assemble"
    /\ image_index = Len(temp_images)
    /\ Len(doc) = 0
    /\ Say("No pages added to the PDF", 0)
    /\ pc' = "check"
    /\ UNCHANGED <<fsVars, inputVars, renderVars, assembleVars, splitVars, faults>>

\* ----------------------------------- pdf_to_split_pdfs: the existence check
CheckLargeExists ==
    /\ pc = "check"
    /\ Exists(fs[temp_pdf])
    /\ Say("Large PDF created successfully", 0)
    /\ pc' = "split"
    /\ UNCHANGED <<fsVars, inputVars, renderVars, assembleVars, splitVars, faults>>

CheckLargeMissing ==
    /\ pc = "check"
    /\ ~Exists(fs[temp_pdf])
    /\ Say("Error: The large PDF was not created", 0)
    /\ pc' = "cleanup"
    /\ UNCHANGED <<fsVars, inputVars, renderVars, assembleVars, splitVars, faults>>

\* ---------------------------------------------------------------- split_pdf
\* if current_size >= MAX_FILE_SIZE_BYTES
ShardFull(current_size) == current_size >= Ceiling

KeepSplitIndex(current_size, idx) == idx
\* split_index += 1 when the saved shard reached the ceiling
NextSplitIndex(current_size, idx) ==
    IF ShardFull(current_size) THEN idx + 1 ELSE idx

KeepCurrentPdf(current_size, acc) == acc
\* current_pdf = fitz.open() when the saved shard reached the ceiling
NextCurrentPdf(current_size, acc) ==
    IF ShardFull(current_size) THEN <<>> ELSE acc

BreakAfterError(n, total) == total
\* the except clause of the loop body prints and falls through to the next page
ContinueAfterError(n, total) == n + 1

\* current_pdf.save(split_{idx}.pdf) succeeded
SaveShard(sh, idx, acc) ==
    [k \in 1..(IF idx > Len(sh) THEN idx ELSE Len(sh)) |->
        IF k = idx THEN Pdf(acc) ELSE sh[k]]

\* current_pdf.save(split_{idx}.pdf) raised: the file is untouched or truncated
FailedShard(sh, idx) ==
    {sh} \cup {[k \in 1..(IF idx > Len(sh) THEN idx ELSE Len(sh)) |->
                  IF k = idx THEN BadFile ELSE sh[k]]}

MakeDirs(d) == IF d = "absent" THEN "writable" ELSE d

\* os.makedirs raises: the exception leaves split_pdf
SplitMkdirFail ==
    /\ pc = "split"
    /\ out_dir = "blocked"
    /\ Say("An error occurred during processing: makedirs", 0)
    /\ pc' = "cleanup"
    /\ UNCHANGED <<fsVars, inputVars, renderVars, assembleVars, splitVars, faults>>

SplitOpenOk ==
    /\ pc = "split"
    /\ out_dir # "blocked"
    /\ out_dir' = MakeDirs(out_dir)
    /\ fs[temp_pdf].kind = "pdf"
    /\ split_source' = fs[temp_pdf].pages
    /\ Say("Opened PDF", Len(fs[temp_pdf].pages))
    /\ current_pdf' = <<>>
    /\ split_index' = 1
    /\ page_number' = 0
    /\ pc' = "split_loop"
    /\ UNCHANGED <<fs, images, shards, inputVars, renderVars, assembleVars, faults>>

SplitOpenFail ==
    /\ pc = "split"
    /\ out_dir # "blocked"
    /\ out_dir' = MakeDirs(out_dir)
    /\ fs[temp_pdf].kind # "pdf"
    /\ Say("Error opening PDF", 0)
    /\ pc' = "cleanup"
    /\ UNCHANGED <<fs, images, shards, inputVars, renderVars, assembleVars,
                   splitVars, faults>>

\* insert_pdf raises
SplitInsertFail ==
    /\ pc = "split_loop"
    /\ page_number < Len(split_source)
    /\ CanFault /\ Fault
    /\ Say("Error processing page: insert_pdf", page_number + 1)
    /\ page_number' = ContinueAfterError(page_number, Len(split_source))
    /\ UNCHANGED <<fsVars, inputVars, pc, renderVars, assembleVars,
                   split_source, current_pdf, split_index>>

\* insert_pdf succeeds, current_pdf.save raises
SplitSaveFail ==
    /\ pc = "split_loop"
    /\ page_number < Len(split_source)
    /\ \/ out_dir = "readonly" /\ UNCHANGED faults
       \/ out_dir # "readonly" /\ CanFault /\ Fault
    /\ current_pdf' = Append(current_pdf, split_source[page_number + 1])
    /\ shards' \in FailedShard(shards, split_index)
    /\ Say("Error processing page: save", page_number + 1)
    /\ page_number' = ContinueAfterError(page_number, Len(split_source))
    /\ UNCHANGED <<fs, images, out_dir, inputVars, pc, renderVars,
                   assembleVars, split_source, split_index>>

SplitPageOk ==
    /\ pc = "split_loop"
    /\ page_number < Len(split_source)
    /\ out_dir = "writable"
    /\ LET acc == Append(current_pdf, split_source[page_number + 1])
           current_size == FileSize(acc, sizes)
       IN /\ shards' = SaveShard(shards, split_index, acc)
          /\ split_index' = NextSplitIndex(current_size, split_index)
          /\ current_pdf' = NextCurrentPdf(current_size, acc)
    /\ Say("Added page", page_number + 1)
    /\ page_number' = page_number + 1
    /\ UNCHANGED <<fs, images, out_dir, inputVars, pc, renderVars,
                   assembleVars, split_source, faults>>

SplitFinalOk ==
    /\ pc = "split_loop"
    /\ page_number >= Len(split_source)
    /\ Len(current_pdf) > 0
    /\ out_dir = "writable"
    /\ shards' = SaveShard(shards, split_index, current_pdf)
    /\ Say("Final split PDF saved", split_index)
    /\ pc' = "cleanup"
    /\ UNCHANGED <<fs, images, out_dir, inputVars, renderVars, assembleVars,
                   splitVars, faults>>

SplitFinalFail ==
    /\ pc = "split_loop"
    /\ page_number >= Len(split_source)
    /\ Len(current_pdf) > 0
    /\ \/ out_dir = "readonly" /\ UNCHANGED faults
       \/ out_dir # "readonly" /\ CanFault /\ Fault
    /\ shards' \in FailedShard(shards, split_index)
    /\ Say("Error saving final split PDF", split_index)
    /\ pc' = "cleanup"
    /\ UNCHANGED <<fs, images, out_dir, inputVars, renderVars, assembleVars,
                   splitVars>>

SplitFinalSkip ==
    /\ pc = "split_loop"
    /\ page_number >= Len(split_source)
    /\ Len(current_pdf) = 0
    /\ pc' = "cleanup"
    /\ UNCHANGED <<fsVars, inputVars, renderVars, assembleVars, splitVars,
                   log, faults>>

\* --------------------------------------- pdf_to_split_pdfs: the finally block
RemoveImages(imgs, listed) ==
    [i \in DOMAIN imgs |-> IF i \in Range(listed) THEN "none" ELSE imgs[i]]

Cleanup ==
    /\ pc = "cleanup"
    /\ images' = RemoveImages(images, temp_images)
    /\ fs' = [fs EXCEPT ![temp_pdf] = NoFile]
    /\ pc' = "done"
    /\ UNCHANGED <<out_dir, shards, inputVars, renderVars, assembleVars,
                   splitVars, log, faults>>

Next ==
    \/ OpenSourceOk \/ OpenSourceFail
    \/ RenderPageOk \/ RenderPixmapFail \/ RenderSaveFail \/ RenderDone
    \/ ConvertOk \/ ConvertFail
    \/ SaveLargeOk \/ SaveLargeFail \/ SaveLargeEmpty
    \/ CheckLargeExists \/ CheckLargeMissing
    \/ SplitMkdirFail \/ SplitOpenOk \/ SplitOpenFail
    \/ SplitInsertFail \/ SplitSaveFail \/ SplitPageOk
    \/ SplitFinalOk \/ SplitFinalFail \/ SplitFinalSkip
    \/ Cleanup

Spec == Init /\ [][Next]_vars

TypeOK ==
    /\ pc \in {"open", "render", "assemble", "check", "split", "split_loop",
               "cleanup", "done"}
    /\ temp_pdf \in Paths
    /\ split_index \in 1..(Len(split_source) + 1)
    /\ page_number \in 0..Len(split_source)
    /\ faults \in 0..MaxFaults

\* ------------------------------------------------------- claims: vocabulary
Done == pc = "done"
NumPages == Len(sizes)

RenderErrors == {"An error occurred during processing: get_pixmap",
                 "An error occurred during processing: pix.save"}
PageErrors == {"Error processing page: insert_pdf", "Error processing page: save"}
SplitErrors == PageErrors \cup {"Error saving final split PDF"}
StepErrors == RenderErrors \cup SplitErrors
                \cup {"Error converting to PDF", "Error saving combined PDF",
                      "An error occurred during processing: makedirs"}

SaidAny(msgs) == \E i \in DOMAIN log : log[i][1] \in msgs
SourceOpened == pc # "open" /\ ~Said("An error occurred during processing: open")
CleanRun == Done /\ SourceOpened /\ ~SaidAny(StepErrors)

RECURSIVE Flatten(_)
Flatten(sh) == IF sh = <<>> THEN <<>> ELSE Head(sh).pages \o Flatten(Tail(sh))

RECURSIVE MaxPageSize(_)
MaxPageSize(p) ==
    IF p = <<>> THEN 0
    ELSE LET m == MaxPageSize(Tail(p))
         IN IF sizes[Head(p)] > m THEN sizes[Head(p)] ELSE m

LastSaid == log'[Len(log')][1]
SaysNow(msgs) == Len(log') = Len(log) + 1 /\ LastSaid \in msgs

C2_ShardsBelowCeiling ==
    (pc \in {"cleanup", "done"} /\ Said("Opened PDF") /\ ~SaidAny(SplitErrors)) =>
        \A k \in DOMAIN shards :
            shards[k].kind = "pdf" =>
                \/ FileSize(shards[k].pages, sizes) < Ceiling
                \/ /\ Len(shards[k].pages) = 1
                   /\ sizes[shards[k].pages[1]] >= Ceiling

\* C3: when every insert and save succeeded, no shard's final size exceeds
\* the ceiling by more than the size of the largest page it holds.
C3_OvershootAtMostOnePage ==
    (Done /\ ~SaidAny(SplitErrors)) =>
        \A k \in DOMAIN shards :
            /\ shards[k].kind = "pdf"
            /\ FileSize(shards[k].pages, sizes) - Ceiling
                   <= MaxPageSize(shards[k].pages)

C3_Witness ==
    /\ Done /\ ~SaidAny(SplitErrors)
    /\ \E k \in DOMAIN shards :
          /\ Len(shards[k].pages) >= 2
          /\ FileSize(shards[k].pages, sizes) > Ceiling

\* C4 (as claimed): after any run that returns, no temp_page_N.jpg and no
\* intermediate PDF remains on disk.
C4_NoTemporariesRemain ==
    Done => /\ \A i \in DOMAIN images : images[i] = "none"
            /\ ~Exists(fs[temp_pdf])

\* C5 (as claimed): no step of the run writes to, overwrites or deletes the
\* source PDF, whatever intermediate path is passed.
C5_SourceNeverMutated == [][fs'[InputPath] = fs[InputPath]]_vars

\* C6 (as claimed): when zero images converted, split_pdf is never invoked:
\* the orchestrator does not proceed to the split, no output directory is
\* created and no shard is written.
C6_NoPagesNoSplit ==
    Said("No pages added to the PDF") =>
        /\ ~Said("Large PDF created successfully")
        /\ pc \notin {"split", "split_loop"}
        /\ shards = <<>>

\* C7: ten pages of 0.5 MiB under the 4.3 MiB ceiling, no failure: exactly
\* two shards, split_1.pdf with pages 1..9 and split_2.pdf with page 10.
C7_TenHalfMiBPages ==
    (CleanRun /\ sizes = [i \in 1..10 |-> 5]) =>
        shards = <<Pdf(Iota(9)), Pdf(<<10>>)>>

C7_Witness ==
    CleanRun /\ sizes = [i \in 1..10 |-> 5] /\ Len(shards) = 2

\* C8 (as claimed): a render failure on page i does not stop the remaining
\* pages from being attempted nor the Assembler and Splitter from running.
C8_RenderFailureContinues ==
    (Done /\ SaidAny(RenderErrors)) =>
        /\ \A i \in 1..Len(pdf_document) :
              \/ SaidFor("Page rendered", i)
              \/ \E m \in RenderErrors : SaidFor(m, i)
        /\ \/ Said("No pages added to the PDF")
           \/ Said("Combined PDF saved")
           \/ Said("Error saving combined PDF")

\* C9: in split_pdf a page whose insert or save fails is logged and the loop
\* goes on to the next page with the shard counter unchanged and the
\* accumulator as it was before the failed call (holding the page when only
\* the save failed); every page is attempted; a page whose save failed is in
\* the accumulator until a successful save writes it to a shard.
C9_AllAttempted ==
    (pc \in {"cleanup", "done"} /\ Said("Opened PDF")) =>
        \A i \in 1..Len(split_source) :
            SaidFor("Added page", i) \/ \E m \in PageErrors : SaidFor(m, i)

Holds(p, page) == \E j \in DOMAIN p : p[j] = page

C9_UnsavedKept ==
    \A i \in 1..Len(split_source) :
        SaidFor("Error processing page: save", i) =>
            \/ Holds(current_pdf, split_source[i])
            \/ \E k \in DOMAIN shards : Holds(shards[k].pages, split_source[i])

C9_FailureStep ==
    /\ SaysNow(PageErrors) =>
          /\ pc' = "split_loop"
          /\ page_number' = page_number + 1
          /\ split_index' = split_index
          /\ split_source' = split_source
    /\ SaysNow({"Error processing page: insert_pdf"}) =>
          current_pdf' = current_pdf
    /\ SaysNow({"Error processing page: save"}) =>
          current_pdf' = Append(current_pdf, split_source[page_number + 1])
    /\ SaysNow({"Added page"}) =>
          shards'[split_index] =
              Pdf(Append(current_pdf, split_source[page_number + 1]))
    /\ SaysNow({"Final split PDF saved"}) =>
          shards'[split_index] = Pdf(current_pdf)

\* C9: the three parts above together: every page attempted, unsaved pages
\* kept, and each failing step leaving the counter and accumulator in place.
C9_SplitSoftFailure ==
    /\ [](C9_AllAttempted /\ C9_UnsavedKept)
    /\ [][C9_FailureStep]_vars

C9_Witness ==
    /\ Done
    /\ \E i \in 1..Len(split_source) :
          /\ SaidFor("Error processing page: save", i)
          /\ i < Len(split_source)
          /\ SaidFor("Added page", i + 1)
          /\ \E k \in DOMAIN shards :
                /\ shards[k].kind = "pdf"
                /\ Holds(shards[k].pages, split_source[i])
                /\ Holds(shards[k].pages, split_source[i + 1])

\* C10 (as claimed): on a hard failure (source unopenable, intermediate PDF
\* absent, output directory unwritable) the stage aborts without processing
\* further items, nothing downstream runs, and the cleanup still runs.
StageAborted ==
    \/ Said("An error occurred during processing: open")
    \/ Said("Error: The large PDF was not created")
    \/ Said("An error occurred during processing: makedirs")

FailedSaves ==
    Cardinality({i \in DOMAIN log : log[i][1] = "Error processing page: save"})

C10_HardFailureAborts ==
    /\ StageAborted =>
          /\ pc \in {"cleanup", "done"}
          /\ ~Said("Opened PDF")
          /\ shards = <<>>
    /\ Said("An error occurred during processing: open") =>
          ~Said("Page rendered") /\ ~Said("No pages added to the PDF")
    /\ out_dir = "readonly" => FailedSaves <= 1
    /\ Done => /\ ~Exists(fs[temp_pdf])
               /\ \A i \in Range(temp_images) : images[i] = "none"

====
